---- MODULE Spec2Model ----
(***************************************************************************)
(* pet-sounds: ReadConfig (pet.go) decodes an HCL document of pet blocks   *)
(* in two passes against an evaluation context built by createContext.     *)
(*                                                                         *)
(* Go strings are modelled as sequences of one-character strings, so that  *)
(* strings.SplitN, strings.HasPrefix, strings.TrimPrefix and the %s of     *)
(* fmt.Errorf are computed character by character.                         *)
(***************************************************************************)
EXTENDS Integers, Sequences, FiniteSets, TLC

VARIABLES
    environ,      \* os.Environ(): sequence of "KEY=value" entries
    doc,          \* srcHCL.Body: sequence of parsed pet blocks
    pc,           \* position inside ReadConfig
    i,            \* index of the running loop (1-based)
    prefixed,     \* createContext: map[string]cty.Value under construction
    evalContext,  \* *hcl.EvalContext returned by createContext
    petsHCL,      \* petsHCL.PetHCLBodies filled by pass 1
    diags,        \* diagnostics accumulated by the pass-1 DecodeBody
    pets,         \* the local slice pets of ReadConfig
    ret,          \* what ReadConfig returned: [done, pets, err]
    calls,        \* every invocation of the Impl of "random"
    steps         \* every decode step executed: <<pass, block index>>

vars == <<environ, doc, pc, i, prefixed, evalContext, petsHCL, diags, pets,
          ret, calls, steps>>

----------------------------------------------------------------------------
(* Bounds of the model *)

MaxBlocks == 2
MaxEnv == 2

----------------------------------------------------------------------------
(* Strings *)

Range(s) == {s[n] : n \in DOMAIN s}

environmentKey == "env"
envVarPrefix == <<"P", "S", "_">>
defaultCatSound == <<"m", "e", "o", "w">>
defaultDogBreed == <<"m", "u", "t", "t">>

catType == <<"c", "a", "t">>
dogType == <<"d", "o", "g">>

\* strings.HasPrefix(s, p)
HasPrefix(s, p) == Len(s) >= Len(p) /\ SubSeq(s, 1, Len(p)) = p

\* TrimPrefix with the prefix left in place
TrimPrefixKept(s, p) == s

\* strings.TrimPrefix(s, p)
TrimPrefix(s, p) == IF HasPrefix(s, p) THEN SubSeq(s, Len(p) + 1, Len(s)) ELSE s

\* strings.Contains(s, sub)
Contains(s, sub) ==
    \E n \in 0..(Len(s) - Len(sub)) : SubSeq(s, n + 1, n + Len(sub)) = sub

\* strings.SplitN(e, "=", 2): cut at the first "=", or the whole entry alone
SplitN2(e) ==
    IF \E n \in DOMAIN e : e[n] = "="
    THEN LET n == CHOOSE n \in DOMAIN e :
                      e[n] = "=" /\ \A m \in 1..(n - 1) : e[m] # "="
         IN  <<SubSeq(e, 1, n - 1), SubSeq(e, n + 1, Len(e))>>
    ELSE <<e>>

\* m[key] = value on a Go map
MapPut(m, key, value) ==
    [k \in DOMAIN m \cup {key} |-> IF k = key THEN value ELSE m[k]]

EmptyMap == [k \in {} |-> <<>>]

----------------------------------------------------------------------------
(* Environment snapshots *)

EnvKeys ==
    { <<"P", "S", "_", "A">>,            \* PS_A
      <<"P", "S", "_">>,                 \* PS_   (strips to the empty name)
      <<"P", "S", "_", "P", "S", "_">>,  \* PS_PS_ (only one prefix stripped)
      <<"A">>,                           \* A     (no prefix)
      <<"P", "S", "A">>,                 \* PSA   (no prefix)
      <<"A", "P", "S", "_">> }           \* APS_  (prefix not at the start)

EnvValues ==
    { <<>>, <<"n", "y", "a", "n">>, <<"a", "=", "b">> }

\* "KEY=value" entries, and one entry without "=" (skipped by len(e) != 2)
EnvEntries ==
    { k \o <<"=">> \o v : k \in EnvKeys, v \in EnvValues } \cup { <<"A", "B">> }

EntryKey(e) == SplitN2(e)[1]

\* os.Environ() holds each key once
Environs ==
    { e \in UNION { [1..n -> EnvEntries] : n \in 0..MaxEnv } :
        \A a, b \in DOMAIN e : a # b => EntryKey(e[a]) # EntryKey(e[b]) }


----------------------------------------------------------------------------
(* Documents: the parsed HCL of pet blocks                                 *)
(*   pet "<Name>" { type = <expr>  characteristics { <attr> = <expr> } }   *)

empty == <<>>
nyan == <<"n", "y", "a", "n">>
pug == <<"P", "u", "g">>
dachshund == <<"D", "a", "c", "h", "s", "h", "u", "n", "d">>
fishType == <<"f", "i", "s", "h">>
ink == <<"I", "n", "k">>
spot == <<"S", "p", "o", "t">>
varA == <<"A">>

\* expressions: a string literal, a reference env.<s>, a call random(args...)
Lit(s) == [k |-> "lit", s |-> s, args |-> <<>>]
Var(n) == [k |-> "var", s |-> n, args |-> <<>>]
Call(args) == [k |-> "call", s |-> <<>>, args |-> args]

NoAttrs == [a \in {} |-> Lit(empty)]
Sound(e) == [a \in {"sound"} |-> e]
Breed(e) == [a \in {"breed"} |-> e]
Both(e1, e2) == [a \in {"sound", "breed"} |-> IF a = "sound" THEN e1 ELSE e2]

NoChar == [present |-> FALSE, attrs |-> NoAttrs]
Char(attrs) == [present |-> TRUE, attrs |-> attrs]

Typed(e) == [present |-> TRUE, expr |-> e]
NoType == [present |-> FALSE, expr |-> Lit(empty)]

Block(name, type, char) == [Name |-> name, Type |-> type, Characteristics |-> char]

Blocks ==
    { Block(ink, Typed(Lit(catType)), NoChar),
      Block(ink, Typed(Lit(catType)), Char(NoAttrs)),
      Block(ink, Typed(Lit(catType)), Char(Sound(Lit(nyan)))),
      Block(ink, Typed(Lit(catType)), Char(Sound(Lit(empty)))),
      Block(ink, Typed(Lit(catType)), Char(Sound(Var(varA)))),
      Block(ink, Typed(Lit(catType)), Char(Sound(Call(<<>>)))),
      Block(ink, Typed(Lit(catType)), Char(Sound(Call(<<nyan, empty>>)))),
      Block(ink, Typed(Lit(catType)), Char(Breed(Lit(pug)))),
      Block(ink, Typed(Lit(catType)), Char(Both(Call(<<nyan>>), Lit(pug)))),
      Block(spot, Typed(Lit(catType)), NoChar),
      Block(spot, Typed(Lit(dogType)), NoChar),
      Block(ink, Typed(Lit(dogType)), Char(NoAttrs)),
      Block(spot, Typed(Lit(dogType)), Char(Breed(Lit(pug)))),
      Block(spot, Typed(Lit(dogType)), Char(Breed(Call(<<pug, dachshund>>)))),
      Block(spot, Typed(Lit(dogType)), Char(Breed(Var(varA)))),
      Block(spot, Typed(Lit(dogType)), Char(Sound(Lit(nyan)))),
      Block(ink, Typed(Lit(fishType)), NoChar),
      Block(spot, Typed(Lit(fishType)), Char(Sound(Call(<<pug>>)))),
      Block(ink, Typed(Call(<<catType, dogType>>)), NoChar),
      Block(spot, Typed(Var(varA)), NoChar),
      Block(ink, NoType, NoChar) }

Documents == UNION { [1..n -> Blocks] : n \in 0..MaxBlocks }

\* the environments ReadConfig is run under
RunEnvirons ==
    { <<>>,
      << <<"P", "S", "_", "A", "=", "n", "y", "a", "n">> >>,
      << <<"P", "S", "_", "A", "=", "c", "a", "t">> >>,
      << <<"A", "=", "n", "y", "a", "n">>, <<"P", "S", "_", "A", "=">> >> }

----------------------------------------------------------------------------
(* createContext *)

NoContext == [Variables |-> [n \in {} |-> EmptyMap], Functions |-> {}]

\* one iteration of the loop over os.Environ()
ScanEntry(m, entry) ==
    LET e == SplitN2(entry) IN
    IF Len(e) # 2 THEN m
    ELSE IF HasPrefix(e[1], envVarPrefix)
         THEN MapPut(m, TrimPrefix(e[1], envVarPrefix), e[2])
         ELSE m

\* the *hcl.EvalContext returned
MakeContext(m) ==
    [Variables |-> [n \in {environmentKey} |-> m], Functions |-> {"random"}]

CreateContextScan ==
    /\ pc = "createContext"
    /\ i <= Len(environ)
    /\ prefixed' = ScanEntry(prefixed, environ[i])
    /\ i' = i + 1
    /\ UNCHANGED <<environ, doc, pc, evalContext, petsHCL, diags, pets, ret,
                   calls, steps>>

CreateContextReturn ==
    /\ pc = "createContext"
    /\ i > Len(environ)
    /\ evalContext' = MakeContext(prefixed)
    /\ pc' = "pass1"
    /\ i' = 1
    /\ UNCHANGED <<environ, doc, prefixed, petsHCL, diags, pets, ret, calls,
                   steps>>

----------------------------------------------------------------------------
(* Expression evaluation against the context *)

\* rand.Intn(n) returns a value of [0, n) and panics when n <= 0
Intn(n) == 0..(n - 1)

\* Impl of "random": args[rand.Intn(len(args))], r being what Intn returned
randomImpl(args, r) ==
    IF Len(args) = 0
    THEN [kind |-> "panic", v |-> empty]
    ELSE [kind |-> "ok", v |-> args[r + 1]]

\* the draws rand.Intn can make while expression e is evaluated
Draws(e) ==
    IF e.k = "call" /\ Len(e.args) > 0 THEN Intn(Len(e.args)) ELSE {0}

\* value of an expression: [ok, v, summary]; a panic of a function's Impl is
\* turned into an error diagnostic by the caller of the function
Eval(e, ctx, r) ==
    CASE e.k = "lit" -> [ok |-> TRUE, v |-> e.s, summary |-> "none"]
      [] e.k = "var" ->
            IF /\ environmentKey \in DOMAIN ctx.Variables
               /\ e.s \in DOMAIN ctx.Variables[environmentKey]
            THEN [ok |-> TRUE, v |-> ctx.Variables[environmentKey][e.s],
                  summary |-> "none"]
            ELSE [ok |-> FALSE, v |-> empty, summary |-> "Unsupported attribute"]
      [] e.k = "call" ->
            IF "random" \notin ctx.Functions
            THEN [ok |-> FALSE, v |-> empty,
                  summary |-> "Call to unknown function"]
            ELSE LET out == randomImpl(e.args, r) IN
                 IF out.kind = "ok"
                 THEN [ok |-> TRUE, v |-> out.v, summary |-> "none"]
                 ELSE [ok |-> FALSE, v |-> empty,
                       summary |-> "Error in function call"]

\* the invocations of the Impl of "random" made while evaluating e
Invoked(e, ctx, r, pass, block) ==
    IF e.k = "call" /\ "random" \in ctx.Functions
    THEN << [pass |-> pass, block |-> block, args |-> e.args,
             out |-> randomImpl(e.args, r)] >>
    ELSE <<>>

----------------------------------------------------------------------------
(* ReadConfig *)

NoErr == [kind |-> "nil", arg |-> empty, diags |-> {}]
NotReturned == [done |-> FALSE, pets |-> <<>>, err |-> NoErr]

\* a failure that hands back the pets decoded so far
FailPartial(kind, arg, ds) ==
    [done |-> TRUE, pets |-> pets, err |-> [kind |-> kind, arg |-> arg, diags |-> ds]]

\* return []Pet{}, fmt.Errorf(...)
Fail(kind, arg, ds) ==
    [done |-> TRUE, pets |-> <<>>, err |-> [kind |-> kind, arg |-> arg, diags |-> ds]]

\* return pets, nil
Succeed(ps) == [done |-> TRUE, pets |-> ps, err |-> NoErr]

\* the backquote character of the format string
backquote == "BQ"

\* "error in ReadConfig: unknown pet type " and the opening backquote
unknownTypePrefix ==
    <<"e", "r", "r", "o", "r", " ", "i", "n", " ", "R", "e", "a", "d", "C", "o",
      "n", "f", "i", "g", ":", " ", "u", "n", "k", "n", "o", "w", "n", " ", "p",
      "e", "t", " ", "t", "y", "p", "e", " ", backquote>>

\* the text of fmt.Errorf("error in ReadConfig: unknown pet type [%s]", petType),
\* the brackets standing for the backquotes of the format
UnknownTypeText(petType) == unknownTypePrefix \o petType \o <<backquote>>

\* pass 1, one pet block: gohcl decodes the label and the type attribute into
\* the generic struct and leaves the characteristics body undecoded
GenericDiags(b, res, n) ==
    IF ~b.Type.present
    THEN {[summary |-> "Missing required argument", subject |-> "type", block |-> n]}
    ELSE IF ~res.ok
         THEN {[summary |-> res.summary, subject |-> "type", block |-> n]}
         ELSE {}

GenericPet(b, res) ==
    [Name |-> b.Name,
     Type |-> IF b.Type.present /\ res.ok THEN res.v ELSE empty,
     CharacteristicsHCL |-> b.Characteristics]

Pass1Block ==
    /\ pc = "pass1"
    /\ i <= Len(doc)
    /\ LET b == doc[i] IN
       \E r \in Draws(b.Type.expr) :
          LET res == Eval(b.Type.expr, evalContext, r) IN
          /\ petsHCL' = Append(petsHCL, GenericPet(b, res))
          /\ diags' = diags \cup GenericDiags(b, res, i)
          /\ calls' = IF b.Type.present
                      THEN calls \o Invoked(b.Type.expr, evalContext, r, "pass1", i)
                      ELSE calls
    /\ steps' = Append(steps, <<"pass1", i>>)
    /\ i' = i + 1
    /\ UNCHANGED <<environ, doc, pc, prefixed, evalContext, pets, ret>>

\* pass 1 with its diagnostics left unchecked
Pass1CheckSkipped ==
    /\ pc = "pass1"
    /\ i > Len(doc)
    /\ pc' = "pass2"
    /\ i' = 1
    /\ UNCHANGED <<environ, doc, prefixed, evalContext, petsHCL, diags, pets,
                   ret, calls, steps>>

\* if diag.HasErrors() after the pass-1 DecodeBody
Pass1Check ==
    /\ pc = "pass1"
    /\ i > Len(doc)
    /\ IF diags # {}
       THEN /\ ret' = Fail("decoding HCL configuration", empty, diags)
            /\ pc' = "done"
            /\ i' = i
       ELSE /\ pc' = "pass2"
            /\ i' = 1
            /\ ret' = ret
    /\ UNCHANGED <<environ, doc, prefixed, evalContext, petsHCL, diags, pets,
                   calls, steps>>

\* a body decode that tolerates attributes the struct does not declare
BodyDiagsOpen(attrs, field, res) ==
    IF field \in DOMAIN attrs /\ ~res.ok
    THEN {[summary |-> res.summary, subject |-> field]}
    ELSE {}

\* pass 2: gohcl.DecodeBody of a characteristics body into a struct whose one
\* tagged field is "field" (optional); every other attribute is unsupported
BodyDiags(attrs, field, res) ==
    {[summary |-> "Unsupported argument", subject |-> a] :
        a \in {x \in DOMAIN attrs : x # field}}
    \cup (IF field \in DOMAIN attrs /\ ~res.ok
          THEN {[summary |-> res.summary, subject |-> field]}
          ELSE {})

\* the field of the struct after DecodeBody (it starts as the zero value "")
BodyField(attrs, field, res) ==
    IF field \in DOMAIN attrs /\ res.ok THEN res.v ELSE empty

FieldExpr(attrs, field) ==
    IF field \in DOMAIN attrs THEN attrs[field] ELSE Lit(empty)

\* default filling left out
CatSoundUnfilled(v) == v

\* default filling with the test inverted
DogBreedInverted(v) == IF v # empty THEN defaultDogBreed ELSE v

\* if cat.Sound == "" { cat.Sound = defaultCatSound }
CatSound(v) == IF v = empty THEN defaultCatSound ELSE v

\* if dog.Breed == "" { dog.Breed = defaultDogBreed }
DogBreed(v) == IF v = empty THEN defaultDogBreed ELSE v

Cat(name, sound) == [variant |-> "Cat", Name |-> name, Sound |-> sound]
Dog(name, breed) == [variant |-> "Dog", Name |-> name, Breed |-> breed]

\* the case bodies of the switch: the struct built, its field after the
\* default was filled in
NewPet(variant, name, v) ==
    IF variant = "Cat" THEN Cat(name, CatSound(v)) ELSE Dog(name, DogBreed(v))

\* the pet put in front of the slice
PrependPet(ps, pet) == <<pet>> \o ps

\* pets = append(pets, pet)
AppendPet(ps, pet) == Append(ps, pet)

\* one iteration of the loop over petsHCL.PetHCLBodies for a pet of a known
\* type: decode the body, fill the default, append
DecodeVariant(p, variant, field, kind) ==
    IF p.CharacteristicsHCL.present
    THEN LET attrs == p.CharacteristicsHCL.attrs
             e == FieldExpr(attrs, field)
         IN  \E r \in Draws(e) :
                LET res == Eval(e, evalContext, r)
                    ds == BodyDiags(attrs, field, res)
                IN  /\ calls' = IF field \in DOMAIN attrs
                                THEN calls \o Invoked(e, evalContext, r, "pass2", i)
                                ELSE calls
                    /\ IF ds # {}
                       THEN /\ ret' = Fail(kind, empty, ds)
                            /\ pc' = "done"
                            /\ UNCHANGED <<pets, i>>
                       ELSE /\ pets' = AppendPet(pets,
                                   NewPet(variant, p.Name, BodyField(attrs, field, res)))
                            /\ i' = i + 1
                            /\ UNCHANGED <<pc, ret>>
    ELSE /\ pets' = AppendPet(pets, NewPet(variant, p.Name, empty))
         /\ i' = i + 1
         /\ UNCHANGED <<pc, ret, calls>>

DecodeCat ==
    /\ pc = "pass2"
    /\ i <= Len(petsHCL)
    /\ petsHCL[i].Type = catType
    /\ DecodeVariant(petsHCL[i], "Cat", "sound", "decoding cat HCL configuration")
    /\ steps' = Append(steps, <<"pass2", i>>)
    /\ UNCHANGED <<environ, doc, prefixed, evalContext, petsHCL, diags>>

DecodeDog ==
    /\ pc = "pass2"
    /\ i <= Len(petsHCL)
    /\ petsHCL[i].Type = dogType
    /\ DecodeVariant(petsHCL[i], "Dog", "breed", "decoding dog HCL configuration")
    /\ steps' = Append(steps, <<"pass2", i>>)
    /\ UNCHANGED <<environ, doc, prefixed, evalContext, petsHCL, diags>>

\* default: of the switch
UnknownType ==
    /\ pc = "pass2"
    /\ i <= Len(petsHCL)
    /\ petsHCL[i].Type \notin {catType, dogType}
    /\ ret' = Fail("unknown pet type", UnknownTypeText(petsHCL[i].Type), {})
    /\ pc' = "done"
    /\ steps' = Append(steps, <<"pass2", i>>)
    /\ UNCHANGED <<environ, doc, i, prefixed, evalContext, petsHCL, diags, pets,
                   calls>>

\* return pets, nil
ReturnPets ==
    /\ pc = "pass2"
    /\ i > Len(petsHCL)
    /\ ret' = Succeed(pets)
    /\ pc' = "done"
    /\ UNCHANGED <<environ, doc, i, prefixed, evalContext, petsHCL, diags, pets,
                   calls, steps>>

----------------------------------------------------------------------------
(* Specifications *)

InitCommon ==
    /\ pc = "createContext"
    /\ i = 1
    /\ prefixed = EmptyMap
    /\ evalContext = NoContext
    /\ petsHCL = <<>>
    /\ diags = {}
    /\ pets = <<>>
    /\ ret = NotReturned
    /\ calls = <<>>
    /\ steps = <<>>

\* ReadConfig over every document, under a few environments
Init ==
    /\ environ \in RunEnvirons
    /\ doc \in Documents
    /\ InitCommon

Next ==
    \/ CreateContextScan
    \/ CreateContextReturn
    \/ Pass1Block
    \/ Pass1Check
    \/ DecodeCat
    \/ DecodeDog
    \/ UnknownType
    \/ ReturnPets

Spec == Init /\ [][Next]_vars

\* createContext over every environment snapshot
InitEnv ==
    /\ environ \in Environs
    /\ doc = <<>>
    /\ InitCommon

NextEnv ==
    \/ CreateContextScan
    \/ CreateContextReturn

SpecEnv == InitEnv /\ [][NextEnv]_vars

----------------------------------------------------------------------------
(* What the claims speak about, stated on the inputs *)

Done == ret.done
Succeeded == ret.done /\ ret.err.kind = "nil"

\* the registry: discriminator -> variant, optional field, default
Registered == { <<"c", "a", "t">>, <<"d", "o", "g">> }
VariantOf(t) == IF t = <<"c", "a", "t">> THEN "Cat" ELSE "Dog"
FieldOf(t) == IF t = <<"c", "a", "t">> THEN "sound" ELSE "breed"
DefaultOf(t) == IF t = <<"c", "a", "t">> THEN <<"m", "e", "o", "w">>
                                         ELSE <<"m", "u", "t", "t">>

\* the value of the variant's field in a decoded record
FieldValue(pet) == IF pet.variant = "Cat" THEN pet.Sound ELSE pet.Breed

\* the discriminator block n resolved to in pass 1
Discriminator(n) == petsHCL[n].Type

\* the expression resolves without error against the context
Resolves(e) ==
    CASE e.k = "lit" -> TRUE
      [] e.k = "var" -> e.s \in DOMAIN evalContext.Variables["env"]
      [] e.k = "call" -> Len(e.args) > 0

\* the characteristics of block n hold an attribute its variant does not declare
HasUndeclared(n) ==
    /\ Discriminator(n) \in Registered
    /\ doc[n].Characteristics.present
    /\ \E a \in DOMAIN doc[n].Characteristics.attrs : a # FieldOf(Discriminator(n))

\* block n supplies an expression for its variant's optional field
Supplies(n) ==
    /\ Discriminator(n) \in Registered
    /\ doc[n].Characteristics.present
    /\ FieldOf(Discriminator(n)) \in DOMAIN doc[n].Characteristics.attrs

SuppliedExpr(n) == doc[n].Characteristics.attrs[FieldOf(Discriminator(n))]

\* the body of block n decodes without error under its variant's schema
BodyDecodes(n) ==
    /\ ~HasUndeclared(n)
    /\ Supplies(n) => Resolves(SuppliedExpr(n))

\* pass 1 is over and found every generic shape well formed
Pass1Over == pc \in {"pass2", "done"}
Pass1Clean == Pass1Over /\ diags = {}

\* block n fails in pass 2
FailsInPass2(n) == Discriminator(n) \notin Registered \/ ~BodyDecodes(n)

Pass2Steps == {n \in DOMAIN steps : steps[n][1] = "pass2"}
Pass2Calls == {n \in DOMAIN calls : calls[n].pass = "pass2"}

----------------------------------------------------------------------------
(* C1: when every block has a registered discriminator and a body that     *)
(* decodes without error, ReadConfig succeeds with one record per block:   *)
(* as many records as blocks, the n-th carrying the n-th block's label and *)
(* the variant of the n-th block's discriminator.                          *)
C1_OneRecordPerBlock ==
    (Done /\ Pass1Clean
          /\ \A n \in DOMAIN doc : Discriminator(n) \in Registered /\ BodyDecodes(n))
    => /\ Succeeded
       /\ Len(ret.pets) = Len(doc)
       /\ \A n \in DOMAIN doc :
             /\ ret.pets[n].Name = doc[n].Name
             /\ ret.pets[n].variant = VariantOf(Discriminator(n))

\* two blocks with the same label and different variants, both decoded
C1_Witness ==
    /\ Succeeded
    /\ Len(doc) = 2
    /\ doc[1].Name = doc[2].Name
    /\ Discriminator(1) # Discriminator(2)
    /\ Len(ret.pets) = 2

(* C2: when some block has an unregistered discriminator and the blocks    *)
(* otherwise decode, ReadConfig fails with the unknown-type error and      *)
(* returns an empty sequence, whatever was decoded before.                 *)
C2_UnknownVariantFails ==
    (Done /\ Pass1Clean
          /\ (\E n \in DOMAIN doc : Discriminator(n) \notin Registered)
          /\ \A n \in DOMAIN doc : Discriminator(n) \in Registered => BodyDecodes(n))
    => /\ ret.err.kind = "unknown pet type"
       /\ ret.pets = <<>>

\* a block was decoded into pets before the offending block was met
C2_Witness ==
    /\ Done
    /\ ret.err.kind = "unknown pet type"
    /\ Len(pets) = 1
    /\ ret.pets = <<>>

(* C3: a block that omits its variant's optional field (or the whole       *)
(* characteristics block) yields a record whose field is the default:      *)
(* "meow" for a cat's sound, "mutt" for a dog's breed.                     *)
C3_OmittedGetsDefault ==
    Succeeded =>
        \A n \in DOMAIN doc :
            ~Supplies(n) => FieldValue(ret.pets[n]) = DefaultOf(Discriminator(n))

\* a cat without characteristics and a dog with empty characteristics
C3_Witness ==
    /\ Succeeded
    /\ \E n \in DOMAIN doc :
          /\ ~doc[n].Characteristics.present
          /\ ret.pets[n] = [variant |-> "Cat", Name |-> doc[n].Name,
                            Sound |-> <<"m", "e", "o", "w">>]
    /\ \E n \in DOMAIN doc :
          /\ doc[n].Characteristics.present
          /\ ret.pets[n] = [variant |-> "Dog", Name |-> doc[n].Name,
                            Breed |-> <<"m", "u", "t", "t">>]

\* the value the supplied expression of block n resolved to
Resolved(n) ==
    LET e == SuppliedExpr(n) IN
    CASE e.k = "lit" -> e.s
      [] e.k = "var" -> evalContext.Variables["env"][e.s]
      [] e.k = "call" ->
            LET c == CHOOSE c \in Pass2Calls : calls[c].block = n
            IN  calls[c].out.v

(* C4: a block that supplies an expression for its optional field yields   *)
(* a record whose field is the value the expression resolved to, or the    *)
(* default when that value is the empty string.                            *)
C4_SuppliedValueOrDefault ==
    Succeeded =>
        \A n \in DOMAIN doc :
            Supplies(n) =>
                FieldValue(ret.pets[n]) =
                    IF Resolved(n) = <<>> THEN DefaultOf(Discriminator(n))
                                          ELSE Resolved(n)

\* one block resolved to the empty string through a variable or a call and
\* got the default, another kept the non-empty value it resolved to
C4_Witness ==
    /\ Succeeded
    /\ \E n \in DOMAIN doc :
          /\ Supplies(n)
          /\ SuppliedExpr(n).k # "lit"
          /\ Resolved(n) = <<>>
          /\ FieldValue(ret.pets[n]) = DefaultOf(Discriminator(n))
    /\ \E n \in DOMAIN doc :
          /\ Supplies(n)
          /\ SuppliedExpr(n).k # "lit"
          /\ Resolved(n) # <<>>
          /\ FieldValue(ret.pets[n]) = Resolved(n)

(* C5: "random" called with candidates returns one of them; called with    *)
(* no candidate it fails with an ArityError.                               *)
C5_RandomContract ==
    \A n \in DOMAIN calls :
        IF Len(calls[n].args) > 0
        THEN calls[n].out.kind = "ok" /\ calls[n].out.v \in Range(calls[n].args)
        ELSE calls[n].out.kind = "ArityError"

(* C6, as stated: whenever a block's characteristics hold an attribute its *)
(* variant does not declare, ReadConfig fails with an unknown-field error  *)
(* and returns no records.                                                 *)
UnknownFieldError ==
    \E d \in ret.err.diags : d.summary = "Unsupported argument"

C6_AsStated ==
    (Done /\ \E n \in DOMAIN doc : HasUndeclared(n))
    => UnknownFieldError /\ ret.pets = <<>>

(* C6, amended: such a document always fails and returns no records; the   *)
(* error is an unknown-field error naming the attribute when pass 1        *)
(* succeeded and every earlier block decoded.                              *)
C6_ClosedSchema ==
    Done =>
        \A n \in DOMAIN doc :
            HasUndeclared(n) =>
                /\ ret.err.kind # "nil"
                /\ ret.pets = <<>>
                /\ (Pass1Clean /\ \A m \in 1..(n - 1) : ~FailsInPass2(m))
                   => \A a \in DOMAIN doc[n].Characteristics.attrs :
                         a # FieldOf(Discriminator(n))
                         => [summary |-> "Unsupported argument", subject |-> a]
                                \in ret.err.diags

\* the second block holds the undeclared attribute, the first one decoded
C6_Witness ==
    /\ Done
    /\ Len(doc) = 2
    /\ HasUndeclared(2)
    /\ Len(pets) = 1
    /\ UnknownFieldError
    /\ ret.pets = <<>>

(* C7: "random" is invoked only in pass 2, never in pass 1.                *)
C7_RandomOnlyInPass2 ==
    \A n \in DOMAIN calls : calls[n].pass = "pass2"

(* C8: the error for an unregistered discriminator names the discriminator *)
(* value and the label of the offending block.                             *)
C8_ErrorNamesTypeAndLabel ==
    (Done /\ ret.err.kind = "unknown pet type")
    => /\ Contains(ret.err.arg, petsHCL[i].Type)
       /\ Contains(ret.err.arg, petsHCL[i].Name)

----------------------------------------------------------------------------
(* C9: createContext does not fail, and the "env" namespace of its context *)
(* holds exactly one entry, key without "PS_" -> value, for each pair of   *)
(* the snapshot whose key starts with "PS_", and nothing else.             *)

\* the pairs of the snapshot whose key starts with P, S, _
PrefixedPairs ==
    { kv \in EnvKeys \X EnvValues :
        /\ (kv[1] \o <<"=">> \o kv[2]) \in Range(environ)
        /\ Len(kv[1]) >= 3
        /\ kv[1][1] = "P" /\ kv[1][2] = "S" /\ kv[1][3] = "_" }

Stripped(k) == [n \in 1..(Len(k) - 3) |-> k[n + 3]]

C9_WitnessEmpty ==
    /\ pc # "createContext"
    /\ Len(environ) = 2
    /\ evalContext.Variables["env"] = EmptyMap

----------------------------------------------------------------------------
(* C10: pass 1 runs over every block before pass 2 starts, pass 2 runs     *)
(* block by block in document order, the error returned is that of the     *)
(* first failing step and nothing runs after it; a malformed generic shape *)
(* is reported before any characteristics body is evaluated.               *)
FirstFailing == CHOOSE n \in DOMAIN doc :
                    FailsInPass2(n) /\ \A m \in 1..(n - 1) : ~FailsInPass2(m)

C10_FailFastOrder ==
    /\ \A n \in DOMAIN steps :
          /\ steps[n][1] = "pass1" => n <= Len(doc) /\ steps[n][2] = n
          /\ steps[n][1] = "pass2" => n > Len(doc) /\ steps[n][2] = n - Len(doc)
    /\ \A n \in DOMAIN calls : calls[n].pass = "pass2" => Pass1Clean
    /\ Done => ~ENABLED Next
    /\ (Done /\ diags # {}) =>
          /\ ret.err.kind = "decoding HCL configuration"
          /\ ret.err.diags = diags
          /\ \A n \in DOMAIN doc :
                ~doc[n].Type.present =>
                    [summary |-> "Missing required argument", subject |-> "type",
                     block |-> n] \in ret.err.diags
          /\ Pass2Steps = {}
          /\ Pass2Calls = {}
          /\ pets = <<>>
    /\ (Done /\ diags = {} /\ \E n \in DOMAIN doc : FailsInPass2(n)) =>
          /\ ret.err.kind =
                IF Discriminator(FirstFailing) \notin Registered
                THEN "unknown pet type"
                ELSE IF Discriminator(FirstFailing) = <<"c", "a", "t">>
                     THEN "decoding cat HCL configuration"
                     ELSE "decoding dog HCL configuration"
          /\ Len(steps) = Len(doc) + FirstFailing
          /\ \A n \in Pass2Calls : calls[n].block <= FirstFailing
          /\ Len(pets) = FirstFailing - 1

\* an unknown discriminator first, a block without type after it: the
\* malformed shape is what is reported, and pass 2 never started
C10_Witness ==
    /\ Done
    /\ Len(doc) = 2
    /\ doc[1].Type.present
    /\ Discriminator(1) \notin Registered
    /\ ~doc[2].Type.present
    /\ ret.err.kind = "decoding HCL configuration"
    /\ Len(steps) = 2

====
